---- MODULE Spec2Model ----
(***************************************************************************)
(* Model of src/ens160AirQualitySensor.py: the SensorManager run loop, the *)
(* reading assembler (read_sensors), the health tracker (SensorHealth) and *)
(* the delivery cache (write_to_influx / flush_cache).                     *)
(*                                                                         *)
(* Time is counted in whole seconds.  Pressure in hPa is the exact         *)
(* quotient presPa/100, kept as whole hPa plus hundredths.                 *)
(***************************************************************************)
EXTENDS Integers, Sequences, FiniteSets, TLC

VARIABLES
    pc,                 \* position of the process
    now,                \* time.time(), in seconds
    tick,               \* number of read_sensors calls made so far
    port,               \* what the three sensor ports answer in this tick
    at_entry,           \* the health state and the page on entry to this tick
    error_counts,       \* SensorHealth.error_counts
    last_readings,      \* SensorHealth.last_readings
    last_reading_time,  \* SensorHealth.last_reading_time
    sensor_data,        \* run(): the Reading of the current tick
    reading_history,    \* SensorManager.reading_history
    data_cache,         \* SensorManager.data_cache
    last_influx_send,   \* SensorManager.last_influx_send
    startup_message_shown, \* run(): local flag
    running,            \* SensorManager.running
    exit_status,        \* status of sys.exit, -1 while the process lives
    admitted,           \* ids of the readings appended to data_cache, in order
    evicted,            \* ids of the readings dropped by the deque's maxlen
    delivered,          \* ids of the readings in batches the sink accepted
    sink_result,        \* outcome of the last write_api.write call
    display,            \* what the OLED display shows
    hash_seed,          \* the interpreter's string hash seed, as the order
                        \* in which it makes a set of strings iterate
    score,              \* result of the last get_environment_score call
    prev_score,         \* result of the call before that
    current_page,       \* SensorManager.current_page
    page_update_time,   \* run(): local, current_time of the last rotation
    page_text,          \* the lines update_display draws under the level on page 4
    validation          \* a call of one of SensorHealth's validators

vars == <<pc, now, tick, port, at_entry, error_counts, last_readings, last_reading_time,
          sensor_data, reading_history, data_cache, last_influx_send,
          startup_message_shown, running, exit_status,
          admitted, evicted, delivered, sink_result, display,
          hash_seed, score, prev_score, current_page, page_update_time,
          page_text, validation>>

(* the state of the environment analyzer, which the run loop model leaves  *)
(* alone                                                                   *)
analyzerVars == <<hash_seed, score, prev_score, page_text>>

(* The page rotation of run() is followed by PageSpec only: the other      *)
(* specifications keep of the display what it shows last.                  *)
pageVars == <<current_page, page_update_time>>

----------------------------------------------------------------------------
(* Bounds of the model *)

MaxTicks == 2            \* read_sensors calls explored
StartTime == 10          \* time.time() when run() starts

(* Configuration scaled down so that its cases happen within MaxTicks:    *)
(* the source has 1000, 60, 60, 128 and 3.                                *)
MAX_SIZE == 1            \* CONFIG['CACHE']['MAX_SIZE']
BATCH_SIZE == 1          \* CONFIG['INFLUXDB']['BATCH_SIZE']
SEND_INTERVAL_SEC == 2   \* CONFIG['INFLUXDB']['SEND_INTERVAL_SEC']
HISTORY_MAXLEN == 1      \* deque(maxlen=128) of reading_history
ERROR_THRESHOLD == 2     \* CONFIG['HEALTH_CHECK']['ERROR_THRESHOLD']

(* Configuration at its value in the source *)
MAX_READING_AGE_SEC == 5
MEASUREMENT_INTERVAL_SEC == 1
ERROR_SLEEP_SEC == 5
TEMP_RANGE == <<-10, 50>>
HUMID_RANGE == <<0, 100>>
PRESSURE_RANGE == <<900, 1100>>
TVOC_RANGE == <<0, 65000>>
ECO2_RANGE == <<400, 65000>>
AQI_RATINGS == [i \in 1..5 |->
    CASE i = 1 -> "Excellent" [] i = 2 -> "Good" [] i = 3 -> "Moderate"
      [] i = 4 -> "Poor" [] OTHER -> "Unhealthy"]
STATUS_OK == "operating ok"
STATUS_ERROR == "error"
STATUS_WARMUP == "warm-up"
DEFAULT_AQI == [value |-> 1, rating |-> AQI_RATINGS[1]]
DEFAULT_TVOC == 0
DEFAULT_ECO2 == [value |-> 400, rating |-> "Normal"]
DEFAULT_ATMOSPHERIC == [tempC |-> 20, presPa |-> 101325, humRH |-> 50]

Sensors == {"temp_sensor", "air_quality", "atmospheric"}

None == [none |-> TRUE]

----------------------------------------------------------------------------
(* The sensor ports: what one call can answer *)

Fault == [fault |-> TRUE]

AtmosphericAnswers ==
    { Fault,
      [fault |-> FALSE, tempC |-> 20, presPa |-> 101300, humRH |-> 45],
      [fault |-> FALSE, tempC |-> 60, presPa |-> 101300, humRH |-> 45],
      [fault |-> FALSE, tempC |-> 20, presPa |-> 101300, humRH |-> 101],
      [fault |-> FALSE, tempC |-> 20, presPa |-> 89999, humRH |-> 45] }

TempAnswers ==
    { Fault,
      [fault |-> FALSE, tempC |-> 21],
      [fault |-> FALSE, tempC |-> 51] }

(* The air-quality sensor: `at' is the attribute access that raises        *)
(* ("none": no access raises).                                              *)
AirQualityAnswers ==
    LET good == [at |-> "none", operation |-> STATUS_OK,
                 aqi |-> [value |-> 2, rating |-> "Good"], tvoc |-> 100,
                 eco2 |-> [value |-> 500, rating |-> "excellent"]]
    IN { good,
         [good EXCEPT !.at = "temperature"],
         [good EXCEPT !.operation = STATUS_WARMUP],
         [good EXCEPT !.at = "tvoc"],
         [good EXCEPT !.eco2 = [value |-> 399, rating |-> "invalid"]] }

----------------------------------------------------------------------------
(* SensorHealth *)

(* mutant: the count starts over once it has reached the threshold *)
increment_error_Wraps(ec, sensor_name) ==
    [ec EXCEPT ![sensor_name] = IF @ >= ERROR_THRESHOLD THEN 0 ELSE @ + 1]

increment_error(ec, sensor_name) ==
    [ec EXCEPT ![sensor_name] = @ + 1]

(* mutant: the count is left as it is *)
reset_error_Never(ec, sensor_name) == ec

reset_error(ec, sensor_name) ==
    IF ec[sensor_name] > 0 THEN [ec EXCEPT ![sensor_name] = 0] ELSE ec

is_sensor_healthy(ec, sensor_name) ==
    ec[sensor_name] < ERROR_THRESHOLD

is_reading_fresh(lrt, sensor_name, t) ==
    t - lrt[sensor_name] < MAX_READING_AGE_SEC

(* mutant: the upper end is not part of the range *)
InRange_ExclusiveUpper(range, value) == range[1] <= value /\ value < range[2]

InRange(range, value) == range[1] <= value /\ value <= range[2]

(* presPa / 100 *)
ToHPa(presPa) == [whole |-> presPa \div 100, cents |-> presPa % 100]

(* lo <= hpa <= hi for whole-number lo and hi *)
HPaInRange(range, hpa) ==
    /\ range[1] <= hpa.whole
    /\ \/ hpa.whole < range[2]
       \/ hpa.whole = range[2] /\ hpa.cents = 0

validate_reading(reading_type, value) ==
    CASE reading_type = "temperature" -> InRange(TEMP_RANGE, value)
      [] reading_type = "humidity" -> InRange(HUMID_RANGE, value)
      [] reading_type = "pressure" -> HPaInRange(PRESSURE_RANGE, value)
      [] OTHER -> TRUE

(* the aqi passed in is the driver's aqi.value, an int: isinstance holds *)
validate_sensor_reading(sensor_type, value) ==
    CASE sensor_type = "tvoc" -> InRange(TVOC_RANGE, value)
      [] sensor_type = "eco2" -> InRange(ECO2_RANGE, value)
      [] sensor_type = "aqi" -> 1 <= value /\ value <= 5
      [] OTHER -> TRUE

----------------------------------------------------------------------------
(* EnvironmentAnalyzer *)

(* the metrics in the order get_environment_score evaluates them *)
Metrics == <<"co2", "tvoc", "humidity", "temperature", "aqi">>

(* the recommendations list as the if-chains append to it *)
Recommendations(data) ==
    LET co2 == IF data.eco2 > 2000
               THEN <<[metric |-> "co2", text |-> "Ventilate now!"]>>
               ELSE IF data.eco2 > 1200
               THEN <<[metric |-> "co2", text |-> "Open windows"]>>
               ELSE IF data.eco2 > 800
               THEN <<[metric |-> "co2", text |-> "Consider fresh air"]>>
               ELSE <<>>
        tvoc == IF data.tvoc > 10000
                THEN <<[metric |-> "tvoc", text |-> "Air purify now!"]>>
                ELSE IF data.tvoc > 2000
                THEN <<[metric |-> "tvoc", text |-> "Ventilate space"]>>
                ELSE IF data.tvoc > 500
                THEN <<[metric |-> "tvoc", text |-> "Check VOC sources"]>>
                ELSE <<>>
        humidity == IF data.humRH < 30
                    THEN <<[metric |-> "humidity", text |-> "Too dry: humidify"]>>
                    ELSE IF data.humRH < 40
                    THEN <<[metric |-> "humidity", text |-> "Slightly dry"]>>
                    ELSE IF data.humRH > 70
                    THEN <<[metric |-> "humidity",
                            text |-> "Very humid: dehumidify"]>>
                    ELSE IF data.humRH > 60
                    THEN <<[metric |-> "humidity", text |-> "Getting humid"]>>
                    ELSE <<>>
        temp == IF data.tempC > 26
                THEN <<[metric |-> "temperature", text |-> "Space too warm"]>>
                ELSE IF data.tempC < 17
                THEN <<[metric |-> "temperature", text |-> "Space too cool"]>>
                ELSE <<>>
        aqi == IF data.aqi >= 4
               THEN <<[metric |-> "aqi", text |-> "Poor air: purify!"]>>
               ELSE <<>>
    IN  co2 \o tvoc \o humidity \o temp \o aqi

(* The orders in which a set of strings can iterate.  The order follows    *)
(* the strings' hashes, which the interpreter salts anew in every process; *)
(* it is given here as the order it puts the five metrics' strings in.     *)
HashSeeds ==
    { q \in [1..Len(Metrics) -> 1..Len(Metrics)] :
        \A i, j \in 1..Len(Metrics) : i # j => q[i] # q[j] }

(* list(set(recs)): each string once, in the order of the hash seed *)
ListOfSet(recs, seed) ==
    LET present(m) == \E i \in 1..Len(recs) : recs[i].metric = m
        textOf(m) == (CHOOSE r \in {recs[i] : i \in 1..Len(recs)} :
                         r.metric = m).text
        F[k \in 0..Len(Metrics)] ==
            IF k = 0 THEN <<>>
            ELSE IF present(Metrics[seed[k]])
                 THEN Append(F[k - 1], textOf(Metrics[seed[k]]))
                 ELSE F[k - 1]
    IN  F[Len(Metrics)]

(* q[:2] *)
FirstTwo(q) == IF Len(q) > 2 THEN SubSeq(q, 1, 2) ELSE q

get_environment_score(data, seed) ==
    [rating |-> data.aqi_rating,
     recommendations |-> FirstTwo(ListOfSet(Recommendations(data), seed))]

----------------------------------------------------------------------------
(* Containers *)

(* dict.get(key, default): the default is for a missing key only *)
DictGet(d, key, default) == IF key \in DOMAIN d THEN d[key] ELSE default

(* mutant: a deque without maxlen *)
DequeAppend_Unbounded(q, x, n) == Append(q, x)

(* deque(maxlen=n).append(x) *)
DequeAppend(q, x, n) ==
    IF Len(q) >= n THEN Append(SubSeq(q, 2, Len(q)), x) ELSE Append(q, x)

(* the entries that DequeAppend(q, x, n) discards *)
DequeDropped(q, n) == IF Len(q) >= n THEN {q[1]} ELSE {}

Ids(q) == {q[i].id : i \in 1..Len(q)}

----------------------------------------------------------------------------
(* SensorManager.read_sensors *)

(* first try block: the atmospheric sensor *)
ReadAtmospheric(a, ec, lkg, lrt, t) ==
    IF a.fault
    THEN LET ec1 == increment_error(ec, "atmospheric")
             got == DictGet(lkg, "atmospheric", DEFAULT_ATMOSPHERIC)
         IN  IF got = None
             THEN \* unpacking None raises inside the except block
                  [raised |-> TRUE, ec |-> ec1, lrt |-> lrt]
             ELSE [raised |-> FALSE, ec |-> ec1, lrt |-> lrt,
                   tempC |-> got.tempC, presPa |-> got.presPa,
                   humRH |-> got.humRH]
    ELSE LET ok == /\ validate_reading("temperature", a.tempC)
                   /\ validate_reading("humidity", a.humRH)
                   /\ validate_reading("pressure", ToHPa(a.presPa))
         IN  [raised |-> FALSE,
              ec |-> IF ok THEN reset_error(ec, "atmospheric")
                           ELSE increment_error(ec, "atmospheric"),
              lrt |-> [lrt EXCEPT !["atmospheric"] = t],
              tempC |-> a.tempC, presPa |-> a.presPa, humRH |-> a.humRH]

(* second try block: the precision temperature sensor *)
ReadTempSensor(s, tempC, ec, lrt, t) ==
    IF s.fault
    THEN [ec |-> increment_error(ec, "temp_sensor"), lrt |-> lrt,
          tempC_tempSensor |-> tempC]
    ELSE [ec |-> IF validate_reading("temperature", s.tempC)
                 THEN reset_error(ec, "temp_sensor")
                 ELSE increment_error(ec, "temp_sensor"),
          lrt |-> [lrt EXCEPT !["temp_sensor"] = t],
          tempC_tempSensor |-> s.tempC]

(* the order in which the third try block touches the air-quality sensor *)
AccessOrder == <<"temperature", "humidity", "operation", "aqi", "tvoc", "eco2">>

AccessIndex(name) == CHOOSE i \in 1..Len(AccessOrder) : AccessOrder[i] = name

(* the access `name' completes before the access q.at raises *)
Reached(q, name) == q.at = "none" \/ AccessIndex(name) < AccessIndex(q.at)

(* third try block: the air-quality sensor *)
ReadAirQuality(q, ec, lkg, lrt, t) ==
    LET sensor_status == IF Reached(q, "operation") THEN q.operation
                                                    ELSE STATUS_ERROR
        operating == Reached(q, "operation") /\ q.operation = STATUS_OK
        aqi == IF operating /\ Reached(q, "aqi") THEN q.aqi ELSE DEFAULT_AQI
        tvoc == IF operating /\ Reached(q, "tvoc") THEN q.tvoc ELSE DEFAULT_TVOC
        eco2 == IF operating /\ Reached(q, "eco2") THEN q.eco2 ELSE DEFAULT_ECO2
        raises == q.at # "none" \/ ~operating
    IN  IF raises
        THEN LET stored == DictGet(lkg, "air_quality", None)
             IN  [ec |-> increment_error(ec, "air_quality"), lrt |-> lrt,
                  sensor_status |-> sensor_status,
                  aqi |-> IF stored # None THEN stored.aqi ELSE aqi,
                  tvoc |-> IF stored # None THEN stored.tvoc ELSE tvoc,
                  eco2 |-> IF stored # None THEN stored.eco2 ELSE eco2]
        ELSE LET ok == /\ validate_sensor_reading("tvoc", tvoc)
                       /\ validate_sensor_reading("eco2", eco2.value)
                       /\ validate_sensor_reading("aqi", aqi.value)
             IN  [ec |-> IF ok THEN reset_error(ec, "air_quality")
                              ELSE increment_error(ec, "air_quality"),
                  lrt |-> [lrt EXCEPT !["air_quality"] = t],
                  sensor_status |-> sensor_status,
                  aqi |-> aqi, tvoc |-> tvoc, eco2 |-> eco2]

(* the Reading built from the three results; id tells the Readings apart *)
MakeReading(id, atm, tmp, aq, t) ==
    [id |-> id,
     tempC |-> tmp.tempC_tempSensor,
     pres_hPa |-> ToHPa(atm.presPa),
     humRH |-> atm.humRH,
     aqi |-> aq.aqi.value,
     aqi_rating |-> IF aq.aqi.value \in DOMAIN AQI_RATINGS
                    THEN AQI_RATINGS[aq.aqi.value] ELSE "Unknown",
     tvoc |-> aq.tvoc,
     eco2 |-> aq.eco2.value,
     eco2_rating |-> aq.eco2.rating,
     sensor_status |-> aq.sensor_status,
     timestamp |-> t]

(* the last_readings stored when the status is "operating ok" *)
StoreLastReadings(lkg, atm, tmp, aq) ==
    [lkg EXCEPT
        !["atmospheric"] = [tempC |-> atm.tempC, presPa |-> atm.presPa,
                            humRH |-> atm.humRH],
        !["temp_sensor"] = [tempC |-> tmp.tempC_tempSensor],
        !["air_quality"] = [aqi |-> aq.aqi, tvoc |-> aq.tvoc, eco2 |-> aq.eco2]]

(* mutant: the Reading is trusted whatever the air-quality status *)
read_sensors_AlwaysTrusts(p, id, ec, lkg, lrt, hist, t) ==
    LET atm == ReadAtmospheric(p.atmospheric, ec, lkg, lrt, t)
    IN  IF atm.raised
        THEN [raised |-> TRUE, reading |-> None, ec |-> atm.ec,
              lkg |-> lkg, lrt |-> atm.lrt, hist |-> hist]
        ELSE LET tmp == ReadTempSensor(p.temp_sensor, atm.tempC, atm.ec, atm.lrt, t)
                 aq == ReadAirQuality(p.air_quality, tmp.ec, lkg, tmp.lrt, t)
                 reading == MakeReading(id, atm, tmp, aq, t)
                 trusted == TRUE
             IN  [raised |-> FALSE, reading |-> reading, ec |-> aq.ec,
                  lkg |-> IF trusted THEN StoreLastReadings(lkg, atm, tmp, aq)
                                     ELSE lkg,
                  lrt |-> aq.lrt,
                  hist |-> IF trusted
                           THEN DequeAppend(hist, reading, HISTORY_MAXLEN)
                           ELSE hist]

(* the whole call: what it returns or that it raises, and the state it leaves *)
read_sensors(p, id, ec, lkg, lrt, hist, t) ==
    LET atm == ReadAtmospheric(p.atmospheric, ec, lkg, lrt, t)
    IN  IF atm.raised
        THEN [raised |-> TRUE, reading |-> None, ec |-> atm.ec,
              lkg |-> lkg, lrt |-> atm.lrt, hist |-> hist]
        ELSE LET tmp == ReadTempSensor(p.temp_sensor, atm.tempC, atm.ec, atm.lrt, t)
                 aq == ReadAirQuality(p.air_quality, tmp.ec, lkg, tmp.lrt, t)
                 reading == MakeReading(id, atm, tmp, aq, t)
                 trusted == aq.sensor_status = STATUS_OK
             IN  [raised |-> FALSE, reading |-> reading, ec |-> aq.ec,
                  lkg |-> IF trusted THEN StoreLastReadings(lkg, atm, tmp, aq)
                                     ELSE lkg,
                  lrt |-> aq.lrt,
                  hist |-> IF trusted
                           THEN DequeAppend(hist, reading, HISTORY_MAXLEN)
                           ELSE hist]

----------------------------------------------------------------------------
(* Delivery: validate_data_point, flush_cache *)

(* mutant: the operational status is not looked at *)
validate_data_point_NoStatus(data) ==
    /\ InRange(TEMP_RANGE, data.tempC)
    /\ InRange(TVOC_RANGE, data.tvoc)
    /\ InRange(ECO2_RANGE, data.eco2)
    /\ 1 <= data.aqi /\ data.aqi <= Cardinality(DOMAIN AQI_RATINGS)
    /\ 0 <= data.humRH /\ data.humRH <= 100
    /\ HPaInRange(PRESSURE_RANGE, data.pres_hPa)

(* mutant: the temperature is not looked at *)
validate_data_point_NoTemperature(data) ==
    /\ data.sensor_status = STATUS_OK
    /\ InRange(TVOC_RANGE, data.tvoc)
    /\ InRange(ECO2_RANGE, data.eco2)
    /\ 1 <= data.aqi /\ data.aqi <= Cardinality(DOMAIN AQI_RATINGS)
    /\ 0 <= data.humRH /\ data.humRH <= 100
    /\ HPaInRange(PRESSURE_RANGE, data.pres_hPa)

validate_data_point(data) ==
    /\ data.sensor_status = STATUS_OK
    /\ InRange(TEMP_RANGE, data.tempC)
    /\ InRange(TVOC_RANGE, data.tvoc)
    /\ InRange(ECO2_RANGE, data.eco2)
    /\ 1 <= data.aqi /\ data.aqi <= Cardinality(DOMAIN AQI_RATINGS)
    /\ 0 <= data.humRH /\ data.humRH <= 100
    /\ HPaInRange(PRESSURE_RANGE, data.pres_hPa)

(* mutant: the cache is cleared before the write is known to have worked *)
flush_cache_ClearsFirst(cache, lis, dl, sr, t, sinkOk) ==
    IF cache = <<>>
    THEN [data_cache |-> cache, last_influx_send |-> lis, delivered |-> dl,
          sink_result |-> sr]
    ELSE IF sinkOk
    THEN [data_cache |-> <<>>, last_influx_send |-> t,
          delivered |-> dl \cup Ids(cache), sink_result |-> "ok"]
    ELSE [data_cache |-> <<>>, last_influx_send |-> lis, delivered |-> dl,
          sink_result |-> "fail"]

(* mutant: an accepted batch stays in the cache and is sent again *)
flush_cache_KeepsSent(cache, lis, dl, sr, t, sinkOk) ==
    IF cache = <<>>
    THEN [data_cache |-> cache, last_influx_send |-> lis, delivered |-> dl,
          sink_result |-> sr]
    ELSE IF sinkOk
    THEN [data_cache |-> cache, last_influx_send |-> t,
          delivered |-> dl \cup Ids(cache), sink_result |-> "ok"]
    ELSE [data_cache |-> cache, last_influx_send |-> lis, delivered |-> dl,
          sink_result |-> "fail"]

(* flush_cache with a sink that accepts (sinkOk) or raises *)
flush_cache(cache, lis, dl, sr, t, sinkOk) ==
    IF cache = <<>>
    THEN [data_cache |-> cache, last_influx_send |-> lis, delivered |-> dl,
          sink_result |-> sr]
    ELSE IF sinkOk
    THEN [data_cache |-> <<>>, last_influx_send |-> t,
          delivered |-> dl \cup Ids(cache), sink_result |-> "ok"]
    ELSE [data_cache |-> cache, last_influx_send |-> lis, delivered |-> dl,
          sink_result |-> "fail"]

(* mutant: one of the two conditions is enough *)
ShouldFlush_EitherCondition(cache, lis, t) ==
    t - lis >= SEND_INTERVAL_SEC \/ Len(cache) >= BATCH_SIZE

(* mutant: the comparison with the send interval is turned around *)
ShouldFlush_WithinInterval(cache, lis, t) ==
    t - lis <= SEND_INTERVAL_SEC /\ Len(cache) >= BATCH_SIZE

(* the condition under which write_to_influx calls flush_cache *)
ShouldFlush(cache, lis, t) ==
    t - lis >= SEND_INTERVAL_SEC /\ Len(cache) >= BATCH_SIZE

----------------------------------------------------------------------------
(* The process *)

LoopPcs == {"read", "display", "write", "flush", "sleep", "error_sleep"}

Init ==
    /\ pc = "init_influxdb"
    /\ now = StartTime
    /\ tick = 0
    /\ port = None
    /\ at_entry = None
    /\ error_counts = [s \in Sensors |-> 0]
    /\ last_readings = [s \in Sensors |-> None]
    /\ last_reading_time = [s \in Sensors |-> 0]
    /\ sensor_data = None
    /\ reading_history = <<>>
    /\ data_cache = <<>>
    /\ last_influx_send = 0
    /\ startup_message_shown = FALSE
    /\ running = TRUE
    /\ exit_status = -1
    /\ admitted = <<>>
    /\ evicted = {}
    /\ delivered = {}
    /\ sink_result = "none"
    /\ display = "none"
    /\ hash_seed = None
    /\ score = None
    /\ prev_score = None
    /\ current_page = None
    /\ page_update_time = None
    /\ page_text = None
    /\ validation = None

(* How cleanup() finds the display: absent (never created), cleared, or   *)
(* raising before or after the sleep_ms(1000) of the shutdown message      *)
ShutdownDisplays == {"absent", "cleared", "fault_before", "fault_after"}

(* mutant: cleanup() without the final flush *)
CleanupAndExit_NoFlush(status, clientReady, sinkOk, shutdown) ==
    /\ display' = CASE shutdown = "absent" -> display
                    [] shutdown = "cleared" -> "blank"
                    [] OTHER -> "unknown"
    /\ now' = IF shutdown \in {"cleared", "fault_after"} THEN now + 1 ELSE now
    /\ running' = FALSE
    /\ exit_status' = status
    /\ pc' = "exited"
    /\ port' = None
    /\ at_entry' = None
    /\ sensor_data' = None
    /\ UNCHANGED <<tick, error_counts, last_readings, last_reading_time,
                   reading_history, startup_message_shown, admitted, evicted,
                   data_cache, last_influx_send, delivered, sink_result,
                   analyzerVars, pageVars, validation>>

(* cleanup() then sys.exit(status): the display shows the shutdown message *)
(* for a second and is cleared, the cache gets one flush attempt, running  *)
(* is cleared                                                              *)
CleanupAndExit(status, clientReady, sinkOk, shutdown) ==
    LET t == IF shutdown \in {"cleared", "fault_after"} THEN now + 1 ELSE now
        f == IF clientReady
             THEN flush_cache(data_cache, last_influx_send, delivered,
                              sink_result, t, sinkOk)
             ELSE [data_cache |-> data_cache, last_influx_send |-> last_influx_send,
                   delivered |-> delivered, sink_result |-> sink_result]
    IN  /\ display' = CASE shutdown = "absent" -> display
                        [] shutdown = "cleared" -> "blank"
                        [] OTHER -> "unknown"
        /\ now' = t
        /\ data_cache' = f.data_cache
        /\ last_influx_send' = f.last_influx_send
        /\ delivered' = f.delivered
        /\ sink_result' = f.sink_result
        /\ running' = FALSE
        /\ exit_status' = status
        /\ pc' = "exited"
        /\ port' = None
        /\ at_entry' = None
        /\ sensor_data' = None
        /\ UNCHANGED <<tick, error_counts, last_readings,
                       last_reading_time, reading_history,
                       startup_message_shown, admitted, evicted,
                   analyzerVars, pageVars, validation>>

(* __main__: init_influxdb, fatal when the token is missing *)
InitInfluxdb ==
    /\ pc = "init_influxdb"
    /\ \E token \in BOOLEAN :
          IF token
          THEN /\ pc' = "init_devices"
               /\ UNCHANGED <<now, tick, port, at_entry, error_counts, last_readings,
                              last_reading_time, sensor_data, reading_history,
                              data_cache, last_influx_send,
                              startup_message_shown, running, exit_status,
                              admitted, evicted, delivered, sink_result, display,
                   analyzerVars, pageVars, validation>>
          ELSE CleanupAndExit(1, FALSE, FALSE, "absent")

(* mutant: the fatal path of __main__ ends with sys.exit(0) *)
InitDevices_ExitsZero ==
    /\ pc = "init_devices"
    /\ \E devices \in BOOLEAN :
          IF devices
          THEN /\ pc' = "read"
               /\ now' = now + 1
               /\ display' = "init"
               /\ UNCHANGED <<tick, port, at_entry, error_counts, last_readings,
                              last_reading_time, sensor_data, reading_history,
                              data_cache, last_influx_send,
                              startup_message_shown, running, exit_status,
                              admitted, evicted, delivered, sink_result,
                   analyzerVars, pageVars, validation>>
          ELSE \E sinkOk \in BOOLEAN, shutdown \in ShutdownDisplays :
                  CleanupAndExit(0, TRUE, sinkOk, shutdown)

(* __main__: init_devices, fatal when a device fails; then run() starts *)
InitDevices ==
    /\ pc = "init_devices"
    /\ \E devices \in BOOLEAN :
          IF devices
          THEN /\ pc' = "read"
               /\ now' = now + 1
               /\ display' = "init"
               /\ UNCHANGED <<tick, port, at_entry, error_counts, last_readings,
                              last_reading_time, sensor_data, reading_history,
                              data_cache, last_influx_send,
                              startup_message_shown, running, exit_status,
                              admitted, evicted, delivered, sink_result,
                   analyzerVars, pageVars, validation>>
          ELSE \E sinkOk \in BOOLEAN, shutdown \in ShutdownDisplays :
                  CleanupAndExit(1, TRUE, sinkOk, shutdown)

(* run(): sensor_data = self.read_sensors() *)
ReadSensors ==
    /\ pc = "read"
    /\ running
    /\ tick < MaxTicks
    /\ \E a \in AtmosphericAnswers, s \in TempAnswers, q \in AirQualityAnswers :
          LET p == [atmospheric |-> a, temp_sensor |-> s, air_quality |-> q]
              r == read_sensors(p, tick + 1, error_counts, last_readings,
                                last_reading_time, reading_history, now)
          IN  /\ port' = p
              /\ at_entry' = [error_counts |-> error_counts,
                              last_readings |-> last_readings,
                              current_page |-> current_page]
              /\ tick' = tick + 1
              /\ error_counts' = r.ec
              /\ last_readings' = r.lkg
              /\ last_reading_time' = r.lrt
              /\ reading_history' = r.hist
              /\ sensor_data' = IF r.raised THEN sensor_data ELSE r.reading
              /\ pc' = IF r.raised THEN "error_sleep" ELSE "display"
    /\ UNCHANGED <<now, data_cache, last_influx_send, startup_message_shown,
                   running, exit_status, admitted, evicted, delivered,
                   sink_result, display,
                   analyzerVars, pageVars, validation>>

(* run(): update_console, the startup message, the display update.  Only  *)
(* the startup message is outside the display's own try block.            *)
UpdateDisplay ==
    /\ pc = "display"
    /\ \E displayOk \in BOOLEAN :
          IF ~startup_message_shown /\ sensor_data.sensor_status = STATUS_OK
          THEN IF displayOk
               THEN /\ startup_message_shown' = TRUE
                    /\ now' = now + 1
                    /\ display' = "page"
                    /\ pc' = "write"
               ELSE /\ pc' = "error_sleep"
                    /\ display' = "unknown"
                    /\ UNCHANGED <<startup_message_shown, now>>
          ELSE /\ pc' = "write"
               /\ display' = "page"
               /\ UNCHANGED <<startup_message_shown, now>>
    /\ UNCHANGED <<tick, port, at_entry, error_counts, last_readings, last_reading_time,
                   sensor_data, reading_history, data_cache, last_influx_send,
                   running, exit_status, admitted, evicted, delivered,
                   sink_result,
                   analyzerVars, pageVars, validation>>

(* run(): write_to_influx up to its call of flush_cache *)
WriteToInflux ==
    /\ pc = "write"
    /\ IF validate_data_point(sensor_data)
       THEN LET cache == DequeAppend(data_cache, sensor_data, MAX_SIZE)
            IN  /\ data_cache' = cache
                /\ admitted' = Append(admitted, sensor_data.id)
                /\ evicted' = evicted \cup
                      {d.id : d \in DequeDropped(data_cache, MAX_SIZE)}
                /\ pc' = IF ShouldFlush(cache, last_influx_send, now)
                         THEN "flush" ELSE "sleep"
       ELSE /\ pc' = "sleep"
            /\ UNCHANGED <<data_cache, admitted, evicted>>
    /\ UNCHANGED <<now, tick, port, at_entry, error_counts, last_readings,
                   last_reading_time, sensor_data, reading_history,
                   last_influx_send, startup_message_shown, running,
                   exit_status, delivered, sink_result, display,
                   analyzerVars, pageVars, validation>>

(* write_to_influx: self.flush_cache() *)
FlushCache ==
    /\ pc = "flush"
    /\ \E sinkOk \in BOOLEAN :
          LET f == flush_cache(data_cache, last_influx_send, delivered,
                               sink_result, now, sinkOk)
          IN  /\ data_cache' = f.data_cache
              /\ last_influx_send' = f.last_influx_send
              /\ delivered' = f.delivered
              /\ sink_result' = f.sink_result
    /\ pc' = "sleep"
    /\ UNCHANGED <<now, tick, port, at_entry, error_counts, last_readings,
                   last_reading_time, sensor_data, reading_history,
                   startup_message_shown, running, exit_status, admitted,
                   evicted, display,
                   analyzerVars, pageVars, validation>>

(* run(): sleep_ms(MEASUREMENT_INTERVAL_MS) at the end of a tick.  The    *)
(* tick's answers are over, and sensor_data is rebound by the next        *)
(* read_sensors call before anything reads it.                            *)
Sleep ==
    /\ pc = "sleep"
    /\ now' = now + MEASUREMENT_INTERVAL_SEC
    /\ pc' = "read"
    /\ port' = None
    /\ at_entry' = None
    /\ sensor_data' = None
    /\ UNCHANGED <<tick, error_counts, last_readings, last_reading_time,
                   reading_history, data_cache, last_influx_send,
                   startup_message_shown, running, exit_status, admitted,
                   evicted, delivered, sink_result, display,
                   analyzerVars, pageVars, validation>>

(* mutant: the outer except block gives up instead of retrying *)
ErrorSleep_Exits ==
    /\ pc = "error_sleep"
    /\ \E sinkOk \in BOOLEAN, shutdown \in ShutdownDisplays \ {"absent"} :
          CleanupAndExit(1, TRUE, sinkOk, shutdown)

(* run(): the outer except block, sleep_ms(5000) *)
ErrorSleep ==
    /\ pc = "error_sleep"
    /\ now' = now + ERROR_SLEEP_SEC
    /\ pc' = "read"
    /\ port' = None
    /\ at_entry' = None
    /\ sensor_data' = None
    /\ UNCHANGED <<tick, error_counts, last_readings, last_reading_time,
                   reading_history, data_cache, last_influx_send,
                   startup_message_shown, running, exit_status, admitted,
                   evicted, delivered, sink_result, display,
                   analyzerVars, pageVars, validation>>

(* signal_handler: SIGINT or SIGTERM while the loop runs *)
SignalHandler ==
    /\ pc \in LoopPcs
    /\ \E sinkOk \in BOOLEAN, shutdown \in ShutdownDisplays \ {"absent"} :
          CleanupAndExit(0, TRUE, sinkOk, shutdown)

Next ==
    \/ InitInfluxdb
    \/ InitDevices
    \/ ReadSensors
    \/ UpdateDisplay
    \/ WriteToInflux
    \/ FlushCache
    \/ Sleep
    \/ ErrorSleep
    \/ SignalHandler

Spec == Init /\ [][Next]_vars

----------------------------------------------------------------------------
(* The run loop without a bound on its ticks.  The code only ever uses     *)
(* differences of time.time() values, so here the clock stays where it is  *)
(* and a sleep moves the stored times back instead; a stored time older    *)
(* than every threshold it is compared with stops ageing.  Every Reading   *)
(* has the id 0 and the timestamp of that clock, and the record of         *)
(* admissions is not kept.                                                 *)

MaxErrors == 2           \* error counts explored by the unbounded loop

Max(a, b) == IF a >= b THEN a ELSE b

(* time.time() - stored, after d more seconds, for a stored time that is   *)
(* only compared with thresholds up to `horizon'                           *)
Aged(stored, d, horizon) == Max(stored - d, now - horizon - 1)

LiveAtmosphericAnswers ==
    { Fault, [fault |-> FALSE, tempC |-> 20, presPa |-> 101300, humRH |-> 45] }

LiveTempAnswers ==
    { [fault |-> FALSE, tempC |-> 21], [fault |-> FALSE, tempC |-> 51] }

LiveAirQualityAnswers ==
    { q \in AirQualityAnswers : q.at = "none" /\ q.eco2.value = 500 }

(* run(): sensor_data = self.read_sensors() *)
LiveReadSensors ==
    /\ pc = "read"
    /\ running
    /\ \E a \in LiveAtmosphericAnswers, s \in LiveTempAnswers,
          q \in LiveAirQualityAnswers :
          LET p == [atmospheric |-> a, temp_sensor |-> s, air_quality |-> q]
              r == read_sensors(p, 0, error_counts, last_readings,
                                last_reading_time, reading_history, now)
          IN  /\ \A x \in Sensors : r.ec[x] <= MaxErrors
              /\ port' = p
              /\ at_entry' = [error_counts |-> error_counts,
                              last_readings |-> last_readings,
                              current_page |-> current_page]
              /\ error_counts' = r.ec
              /\ last_readings' = r.lkg
              /\ last_reading_time' = r.lrt
              /\ reading_history' = r.hist
              /\ sensor_data' = IF r.raised THEN sensor_data ELSE r.reading
              /\ pc' = IF r.raised THEN "error_sleep" ELSE "display"
    /\ UNCHANGED <<now, tick, data_cache, last_influx_send,
                   startup_message_shown, running, exit_status, admitted,
                   evicted, delivered, sink_result, display,
                   analyzerVars, pageVars, validation>>

(* run(): write_to_influx up to its call of flush_cache *)
LiveWriteToInflux ==
    /\ pc = "write"
    /\ IF validate_data_point(sensor_data)
       THEN LET cache == DequeAppend(data_cache, sensor_data, MAX_SIZE)
            IN  /\ data_cache' = cache
                /\ pc' = IF ShouldFlush(cache, last_influx_send, now)
                         THEN "flush" ELSE "sleep"
       ELSE /\ pc' = "sleep"
            /\ UNCHANGED data_cache
    /\ UNCHANGED <<now, tick, port, at_entry, error_counts, last_readings,
                   last_reading_time, sensor_data, reading_history,
                   last_influx_send, startup_message_shown, running,
                   exit_status, admitted, evicted, delivered, sink_result, display,
                   analyzerVars, pageVars, validation>>

(* sleep_ms(d * 1000) *)
LiveElapse(d) ==
    /\ last_influx_send' = Aged(last_influx_send, d, SEND_INTERVAL_SEC)
    /\ last_reading_time' =
          [s \in Sensors |-> Aged(last_reading_time[s], d, MAX_READING_AGE_SEC)]
    /\ pc' = "read"
    /\ port' = None
    /\ at_entry' = None
    /\ sensor_data' = None
    /\ UNCHANGED <<now, tick, error_counts, last_readings, reading_history,
                   data_cache, startup_message_shown, running, exit_status,
                   admitted, evicted, delivered, sink_result, display,
                   analyzerVars, pageVars, validation>>

(* run(): sleep_ms(MEASUREMENT_INTERVAL_MS) at the end of a tick *)
LiveSleep == pc = "sleep" /\ LiveElapse(MEASUREMENT_INTERVAL_SEC)

(* run(): the outer except block, sleep_ms(5000) *)
LiveErrorSleep == pc = "error_sleep" /\ LiveElapse(ERROR_SLEEP_SEC)

LiveNext ==
    \/ InitInfluxdb
    \/ InitDevices
    \/ LiveReadSensors
    \/ UpdateDisplay
    \/ LiveWriteToInflux
    \/ FlushCache
    \/ LiveSleep
    \/ LiveErrorSleep
    \/ SignalHandler

(* The interpreter keeps executing the loop: every step of the process     *)
(* that can be taken is taken.  Signals are the environment's: no fairness. *)
LiveSpec ==
    /\ Init
    /\ [][LiveNext]_vars
    /\ WF_vars(InitInfluxdb) /\ WF_vars(InitDevices)
    /\ WF_vars(LiveReadSensors) /\ WF_vars(UpdateDisplay)
    /\ WF_vars(LiveWriteToInflux) /\ WF_vars(FlushCache)
    /\ WF_vars(LiveSleep) /\ WF_vars(LiveErrorSleep)

----------------------------------------------------------------------------
(* EnvironmentAnalyzer.get_environment_score on its own: a Reading is      *)
(* scored, the program is started again, and the same Reading is scored    *)
(* once more.                                                              *)

ScoreReadings ==
    { [id |-> 0, tempC |-> t, pres_hPa |-> ToHPa(101300), humRH |-> h,
       aqi |-> a, aqi_rating |-> AQI_RATINGS[a], tvoc |-> v, eco2 |-> c,
       eco2_rating |-> "n/a", sensor_status |-> STATUS_OK, timestamp |-> 0] :
      t \in {21, 27}, h \in {45, 29}, a \in {2, 4}, v \in {100, 10001},
      c \in {500, 801, 1201, 2001} }

ScoreInit ==
    /\ pc = "score"
    /\ sensor_data \in ScoreReadings
    /\ hash_seed \in HashSeeds
    /\ score = None
    /\ prev_score = None
    /\ now = StartTime
    /\ tick = 0
    /\ port = None
    /\ at_entry = None
    /\ error_counts = [s \in Sensors |-> 0]
    /\ last_readings = [s \in Sensors |-> None]
    /\ last_reading_time = [s \in Sensors |-> 0]
    /\ reading_history = <<>>
    /\ data_cache = <<>>
    /\ last_influx_send = 0
    /\ startup_message_shown = FALSE
    /\ running = TRUE
    /\ exit_status = -1
    /\ admitted = <<>>
    /\ evicted = {}
    /\ delivered = {}
    /\ sink_result = "none"
    /\ display = "none"
    /\ current_page = None
    /\ page_update_time = None
    /\ page_text = None
    /\ validation = None

loopVars == <<now, tick, port, at_entry, error_counts, last_readings,
              last_reading_time, reading_history, data_cache,
              last_influx_send, startup_message_shown, running, exit_status,
              admitted, evicted, delivered, sink_result, display>>

(* update_display, page 4: get_environment_score(sensor_data) *)
GetEnvironmentScore ==
    /\ pc = "score"
    /\ score' = get_environment_score(sensor_data, hash_seed)
    /\ prev_score' = score
    /\ pc' = "scored"
    /\ UNCHANGED <<sensor_data, hash_seed, page_text, loopVars, pageVars, validation>>

(* the program is started again: the interpreter draws a new hash seed *)
Restart ==
    /\ pc = "scored"
    /\ prev_score = None
    /\ hash_seed' \in HashSeeds
    /\ pc' = "score"
    /\ UNCHANGED <<sensor_data, score, prev_score, page_text, loopVars, pageVars, validation>>

ScoreNext ==
    \/ GetEnvironmentScore
    \/ Restart

ScoreSpec == ScoreInit /\ [][ScoreNext]_vars

----------------------------------------------------------------------------
(* The run loop with its page rotation, from the first line of run().     *)
(* Time is kept as in the unbounded loop above: page_update_time is only  *)
(* ever subtracted from current_time and compared with                     *)
(* UPDATE_INTERVAL_SEC.  update_display catches whatever its drawing       *)
(* raises, so the inner except block of run() (current_page = 0) is never *)
(* entered.                                                                *)

PAGES == 5                  \* CONFIG['DISPLAY']['PAGES']
UPDATE_INTERVAL_SEC == 3    \* CONFIG['DISPLAY']['UPDATE_INTERVAL_SEC']

(* get_sensor_health_status, one entry per sensor *)
get_sensor_health_status(ec, lrt, t) ==
    [s \in Sensors |-> [healthy |-> is_sensor_healthy(ec, s),
                        fresh |-> is_reading_fresh(lrt, s, t),
                        errors |-> ec[s]]]

(* mutant: the error counts are not looked at *)
all_healthy_IgnoresErrors(health_status) ==
    \A s \in Sensors : health_status[s].healthy /\ health_status[s].fresh

(* run(): all_healthy *)
all_healthy(health_status) ==
    \A s \in Sensors : /\ health_status[s].healthy
                        /\ health_status[s].fresh
                        /\ health_status[s].errors = 0

(* run(): next_page *)
NextPage(page, healthy) ==
    LET next_page == (page + 1) % PAGES
    IN  IF healthy /\ next_page = 3 THEN 4 ELSE next_page

(* run(): current_time - page_update_time >= UPDATE_INTERVAL_SEC *)
RotationDue(current_time, put) == current_time - put >= UPDATE_INTERVAL_SEC

(* the state in which run() starts *)
PageInit ==
    /\ pc = "read"
    /\ now = StartTime
    /\ tick = 0
    /\ port = None
    /\ at_entry = None
    /\ error_counts = [s \in Sensors |-> 0]
    /\ last_readings = [s \in Sensors |-> None]
    /\ last_reading_time = [s \in Sensors |-> 0]
    /\ sensor_data = None
    /\ reading_history = <<>>
    /\ data_cache = <<>>
    /\ last_influx_send = 0
    /\ startup_message_shown = FALSE
    /\ running = TRUE
    /\ exit_status = -1
    /\ admitted = <<>>
    /\ evicted = {}
    /\ delivered = {}
    /\ sink_result = "none"
    /\ display = "init"
    /\ hash_seed = None
    /\ score = None
    /\ prev_score = None
    /\ current_page = 0
    /\ page_update_time = now
    /\ page_text = None
    /\ validation = None

(* run(): the startup message, the rotation and the display update.       *)
(* current_time was taken at the start of the tick, before the startup    *)
(* message's sleep_ms(1000); is_reading_fresh reads the clock after it.    *)
PageUpdateDisplay ==
    /\ pc = "display"
    /\ \E displayOk \in BOOLEAN :
          LET message == ~startup_message_shown
                            /\ sensor_data.sensor_status = STATUS_OK
              current_time == now
              t == IF message THEN now + 1 ELSE now
              health_status ==
                  get_sensor_health_status(error_counts, last_reading_time, t)
          IN  IF message /\ ~displayOk
              THEN /\ pc' = "error_sleep"
                   /\ display' = "unknown"
                   /\ UNCHANGED <<startup_message_shown, now, pageVars>>
              ELSE /\ startup_message_shown' = (startup_message_shown \/ message)
                   /\ now' = t
                   /\ IF RotationDue(current_time, page_update_time)
                      THEN /\ current_page' =
                                 NextPage(current_page, all_healthy(health_status))
                           /\ page_update_time' = current_time
                      ELSE UNCHANGED pageVars
                   /\ display' = "page"
                   /\ pc' = "write"
    /\ UNCHANGED <<tick, port, at_entry, error_counts, last_readings,
                   last_reading_time, sensor_data, reading_history, data_cache,
                   last_influx_send, running, exit_status, admitted, evicted,
                   delivered, sink_result, analyzerVars, validation>>

(* sleep_ms(d * 1000) *)
PageElapse(d) ==
    /\ last_influx_send' = Aged(last_influx_send, d, SEND_INTERVAL_SEC)
    /\ last_reading_time' =
          [s \in Sensors |-> Aged(last_reading_time[s], d, MAX_READING_AGE_SEC)]
    /\ page_update_time' = Aged(page_update_time, d, UPDATE_INTERVAL_SEC)
    /\ pc' = "read"
    /\ port' = None
    /\ at_entry' = None
    /\ sensor_data' = None
    /\ UNCHANGED <<now, tick, error_counts, last_readings, reading_history,
                   data_cache, startup_message_shown, running, exit_status,
                   admitted, evicted, delivered, sink_result, display,
                   analyzerVars, current_page, validation>>

(* run(): sleep_ms(MEASUREMENT_INTERVAL_MS) at the end of a tick *)
PageSleep == pc = "sleep" /\ PageElapse(MEASUREMENT_INTERVAL_SEC)

(* run(): the outer except block, sleep_ms(5000) *)
PageErrorSleep == pc = "error_sleep" /\ PageElapse(ERROR_SLEEP_SEC)

PageNext ==
    \/ LiveReadSensors
    \/ PageUpdateDisplay
    \/ LiveWriteToInflux
    \/ FlushCache
    \/ PageSleep
    \/ PageErrorSleep
    \/ SignalHandler

PageSpec == PageInit /\ [][PageNext]_vars

----------------------------------------------------------------------------
(* update_display on page 4, on its own: the Reading is scored and the    *)
(* lines under the level are drawn.                                        *)

Statuses == {STATUS_OK, STATUS_ERROR, STATUS_WARMUP, "initial start-up",
             "no valid output"}

EnvironmentReadings ==
    { [id |-> 0, tempC |-> 21, pres_hPa |-> ToHPa(101300), humRH |-> h,
       aqi |-> a, aqi_rating |-> AQI_RATINGS[a], tvoc |-> 100, eco2 |-> c,
       eco2_rating |-> "n/a", sensor_status |-> st, timestamp |-> 0] :
      h \in {45, 29}, a \in 1..5, c \in {500, 801}, st \in Statuses }

(* update_display, page 4: the texts drawn from y = 27 on; a text of more *)
(* than 16 characters is drawn on two rows, which is one line here         *)
EnvironmentPageLines(data, recommendations) ==
    IF recommendations = <<>>
    THEN IF data.sensor_status = STATUS_OK
         THEN IF data.aqi = 1 THEN <<"Air quality ideal">>
              ELSE IF data.aqi = 2
              THEN <<"Air quality good", "Continue ventilation">>
              ELSE <<>>
         ELSE <<"Sensor warming up">>
    ELSE FirstTwo(recommendations)

EnvironmentInit ==
    /\ pc = "environment"
    /\ sensor_data \in EnvironmentReadings
    /\ hash_seed \in HashSeeds
    /\ score = None
    /\ prev_score = None
    /\ page_text = None
    /\ validation = None
    /\ now = StartTime
    /\ tick = 0
    /\ port = None
    /\ at_entry = None
    /\ error_counts = [s \in Sensors |-> 0]
    /\ last_readings = [s \in Sensors |-> None]
    /\ last_reading_time = [s \in Sensors |-> 0]
    /\ reading_history = <<>>
    /\ data_cache = <<>>
    /\ last_influx_send = 0
    /\ startup_message_shown = TRUE
    /\ running = TRUE
    /\ exit_status = -1
    /\ admitted = <<>>
    /\ evicted = {}
    /\ delivered = {}
    /\ sink_result = "none"
    /\ display = "page"
    /\ current_page = 4
    /\ page_update_time = now

(* update_display(display, sensor_data, 4) *)
UpdateDisplayEnvironment ==
    /\ pc = "environment"
    /\ current_page = 4
    /\ LET result == get_environment_score(sensor_data, hash_seed)
       IN  /\ score' = result
           /\ page_text' = EnvironmentPageLines(sensor_data,
                                                result.recommendations)
    /\ pc' = "shown"
    /\ UNCHANGED <<sensor_data, hash_seed, prev_score, loopVars, pageVars, validation>>

EnvironmentNext == UpdateDisplayEnvironment

EnvironmentSpec == EnvironmentInit /\ [][EnvironmentNext]_vars

----------------------------------------------------------------------------
(* SensorHealth.validate_reading and validate_sensor_reading on their own: *)
(* one call on a SensorHealth object in some state.                        *)

(* values below, at, between and above the two ends of a range *)
Around(lo, hi) == {lo - 1, lo, lo + 1, hi - 1, hi, hi + 1}

ValidatorCalls ==
    [fn : {"validate_reading"}, kind : {"temperature"},
     value : Around(TEMP_RANGE[1], TEMP_RANGE[2])]
    \cup [fn : {"validate_reading"}, kind : {"humidity"},
          value : Around(HUMID_RANGE[1], HUMID_RANGE[2])]
    \cup [fn : {"validate_reading"}, kind : {"pressure"},
          value : {ToHPa(presPa) :
                     presPa \in Around(PRESSURE_RANGE[1] * 100,
                                       PRESSURE_RANGE[2] * 100)}]
    \cup [fn : {"validate_sensor_reading"}, kind : {"tvoc"},
          value : Around(TVOC_RANGE[1], TVOC_RANGE[2])]
    \cup [fn : {"validate_sensor_reading"}, kind : {"eco2"},
          value : Around(ECO2_RANGE[1], ECO2_RANGE[2])]
    \cup [fn : {"validate_sensor_reading"}, kind : {"aqi"},
          value : Around(1, 5)]
    \cup [fn : {"validate_reading", "validate_sensor_reading"},
          kind : {"altitude"}, value : Around(0, 5)]
    \cup [fn : {"validate_reading"}, kind : {"aqi"}, value : Around(1, 5)]

ValidatorInit ==
    /\ pc = "validate"
    /\ validation \in ValidatorCalls
    /\ error_counts \in [Sensors -> 0..1]
    /\ last_reading_time = [s \in Sensors |-> 0]
    /\ last_readings = [s \in Sensors |-> None]
    /\ now = StartTime
    /\ tick = 0
    /\ port = None
    /\ at_entry = [error_counts |-> error_counts,
                   last_readings |-> last_readings,
                   current_page |-> None]
    /\ sensor_data = None
    /\ reading_history = <<>>
    /\ data_cache = <<>>
    /\ last_influx_send = 0
    /\ startup_message_shown = FALSE
    /\ running = TRUE
    /\ exit_status = -1
    /\ admitted = <<>>
    /\ evicted = {}
    /\ delivered = {}
    /\ sink_result = "none"
    /\ display = "none"
    /\ hash_seed = None
    /\ score = None
    /\ prev_score = None
    /\ page_text = None
    /\ current_page = None
    /\ page_update_time = None

(* self.health.validate_reading(kind, value) *)
ValidateReading ==
    /\ pc = "validate"
    /\ validation.fn = "validate_reading"
    /\ validation' = [fn |-> validation.fn, kind |-> validation.kind,
                      value |-> validation.value,
                      result |-> validate_reading(validation.kind,
                                                  validation.value)]
    /\ pc' = "validated"
    /\ UNCHANGED <<sensor_data, analyzerVars, loopVars, pageVars>>

(* self.health.validate_sensor_reading(kind, value) *)
ValidateSensorReading ==
    /\ pc = "validate"
    /\ validation.fn = "validate_sensor_reading"
    /\ validation' = [fn |-> validation.fn, kind |-> validation.kind,
                      value |-> validation.value,
                      result |-> validate_sensor_reading(validation.kind,
                                                         validation.value)]
    /\ pc' = "validated"
    /\ UNCHANGED <<sensor_data, analyzerVars, loopVars, pageVars>>

ValidatorNext ==
    \/ ValidateReading
    \/ ValidateSensorReading

ValidatorSpec == ValidatorInit /\ [][ValidatorNext]_vars

----------------------------------------------------------------------------
(* What a tick's answers are, read off the ports *)

ReadingFields == {"tempC", "pres_hPa", "humRH", "aqi", "aqi_rating", "tvoc",
                  "eco2", "eco2_rating", "sensor_status", "timestamp"}

InTick == port # None

(* read_sensors has returned its Reading for this tick *)
Returned == InTick /\ sensor_data # None

(* write_to_influx and its flush are over for this tick *)
Offered == Returned /\ pc = "sleep"

AdmittedIds == {admitted[i] : i \in 1..Len(admitted)}

AtmosphericInRange(a) ==
    /\ InRange(TEMP_RANGE, a.tempC)
    /\ InRange(HUMID_RANGE, a.humRH)
    /\ PRESSURE_RANGE[1] * 100 <= a.presPa
    /\ a.presPa <= PRESSURE_RANGE[2] * 100

AirQualityInRange(q) ==
    /\ InRange(TVOC_RANGE, q.tvoc)
    /\ InRange(ECO2_RANGE, q.eco2.value)
    /\ q.aqi.value \in 1..5

(* the sensor answered, in range (and, for air quality, operating ok) *)
GoodAnswer(p, s) ==
    CASE s = "atmospheric" ->
            ~p.atmospheric.fault /\ AtmosphericInRange(p.atmospheric)
      [] s = "temp_sensor" ->
            ~p.temp_sensor.fault /\ InRange(TEMP_RANGE, p.temp_sensor.tempC)
      [] s = "air_quality" ->
            /\ p.air_quality.at = "none"
            /\ p.air_quality.operation = STATUS_OK
            /\ AirQualityInRange(p.air_quality)

(* the sensor answered with a value out of range *)
OutOfRangeAnswer(p, s) ==
    CASE s = "atmospheric" ->
            ~p.atmospheric.fault /\ ~AtmosphericInRange(p.atmospheric)
      [] s = "temp_sensor" ->
            ~p.temp_sensor.fault /\ ~InRange(TEMP_RANGE, p.temp_sensor.tempC)
      [] s = "air_quality" ->
            /\ p.air_quality.at = "none"
            /\ p.air_quality.operation = STATUS_OK
            /\ ~AirQualityInRange(p.air_quality)

(* this tick recorded a validation failure for sensor s *)
ValidationFailure(s) ==
    /\ InTick
    /\ OutOfRangeAnswer(port, s)
    /\ error_counts[s] = at_entry.error_counts[s] + 1

(* the Reading's six measured fields are in their configured ranges *)
FieldsInRange(r) ==
    /\ InRange(TEMP_RANGE, r.tempC)
    /\ InRange(HUMID_RANGE, r.humRH)
    /\ PRESSURE_RANGE[1] * 100 <= r.pres_hPa.whole * 100 + r.pres_hPa.cents
    /\ r.pres_hPa.whole * 100 + r.pres_hPa.cents <= PRESSURE_RANGE[2] * 100
    /\ InRange(TVOC_RANGE, r.tvoc)
    /\ InRange(ECO2_RANGE, r.eco2)
    /\ r.aqi \in 1..5

----------------------------------------------------------------------------
(* C1: read_sensors returns one Reading with a value for every field and   *)
(* never raises, whatever combination of the three reads fails, the first  *)
(* tick included.                                                          *)
C1_ReadSensorsAlwaysReturns ==
    InTick => /\ sensor_data # None
              /\ ReadingFields \subseteq DOMAIN sensor_data

(* C2: when the atmospheric read raises and the other two reads are good,  *)
(* pressure and humidity come from the atmospheric last-known-good, or     *)
(* from the defaults when none is stored; the atmospheric error count goes *)
(* up by exactly 1 and the air-quality error count is 0.                   *)
C2_AtmosphericFaultSubstitutes ==
    (/\ InTick
     /\ port.atmospheric.fault
     /\ GoodAnswer(port, "temp_sensor")
     /\ GoodAnswer(port, "air_quality"))
    => LET stored == at_entry.last_readings["atmospheric"]
           src == IF stored # None THEN stored ELSE DEFAULT_ATMOSPHERIC
       IN  /\ sensor_data # None
           /\ sensor_data.pres_hPa = ToHPa(src.presPa)
           /\ sensor_data.humRH = src.humRH
           /\ error_counts["atmospheric"]
                = at_entry.error_counts["atmospheric"] + 1
           /\ error_counts["air_quality"] = 0

C4_FlushFailureIsNoOp ==
    [][ /\ ((pc = "flush" \/ pc' = "exited") /\ sink_result' = "fail")
           => UNCHANGED <<data_cache, last_influx_send>>
        /\ ((data_cache # <<>> /\ data_cache' = <<>>)
              \/ last_influx_send' # last_influx_send)
           => /\ sink_result' = "ok"
              /\ data_cache # <<>> /\ data_cache' = <<>>
              /\ delivered' = delivered \cup Ids(data_cache)
              /\ last_influx_send' = now' ]_vars

C4_Witness ==
    /\ pc = "sleep"
    /\ sink_result = "fail"
    /\ Len(data_cache) >= BATCH_SIZE
    /\ last_influx_send = 0

(* C5: every reading ever admitted is in exactly one place: still in the   *)
(* cache, in a batch the sink accepted, or evicted by overflow.            *)
C5_AdmittedAccountedFor ==
    \A id \in AdmittedIds :
        /\ id \in Ids(data_cache) \/ id \in delivered \/ id \in evicted
        /\ ~(id \in Ids(data_cache) /\ id \in delivered)
        /\ ~(id \in Ids(data_cache) /\ id \in evicted)
        /\ ~(id \in delivered /\ id \in evicted)

C5_Witness ==
    /\ evicted # {}
    /\ delivered # {}
    /\ Len(admitted) = Cardinality(evicted) + Cardinality(delivered)

(* C6: every reading in the cache has status "operating ok" and all six    *)
(* measured fields in range; a reading that fails this is not appended.    *)
C6_CacheHoldsOnlyValid ==
    /\ \A i \in 1..Len(data_cache) :
          /\ data_cache[i].sensor_status = STATUS_OK
          /\ FieldsInRange(data_cache[i])
    /\ Offered /\ ~(sensor_data.sensor_status = STATUS_OK
                    /\ FieldsInRange(sensor_data))
         => sensor_data.id \notin AdmittedIds

C6_Witness ==
    /\ Offered
    /\ sensor_data.sensor_status = STATUS_OK
    /\ ~FieldsInRange(sensor_data)
    /\ data_cache # <<>>

(* C7: in a tick where the air-quality sensor's status is not "operating   *)
(* ok", the Reading is still returned, its AQI, TVOC and eCO2 are the      *)
(* air-quality last-known-good or else the defaults, and the admission     *)
(* check rejects it.                                                       *)
C7_NotOperatingSubstitutes ==
    (InTick /\ port.air_quality.operation # STATUS_OK)
    => LET stored == at_entry.last_readings["air_quality"]
       IN  /\ sensor_data # None
           /\ sensor_data.aqi = IF stored # None THEN stored.aqi.value
                                                 ELSE DEFAULT_AQI.value
           /\ sensor_data.tvoc = IF stored # None THEN stored.tvoc
                                                  ELSE DEFAULT_TVOC
           /\ sensor_data.eco2 = IF stored # None THEN stored.eco2.value
                                                  ELSE DEFAULT_ECO2.value
           /\ sensor_data.id \notin AdmittedIds

(* C8: a tick that records a validation failure for any sensor still       *)
(* returns its Reading, and that Reading is not admitted to the cache.     *)
C8_ValidationFailureNotAdmitted ==
    \A s \in Sensors :
        ValidationFailure(s) => /\ sensor_data # None
                                /\ sensor_data.id \notin AdmittedIds

(* C8 as amended: the same for a validation failure of a value the Reading *)
(* carries: the precision temperature, humidity, pressure, TVOC, eCO2 or   *)
(* AQI.  The atmospheric sensor's own temperature is not in the Reading.   *)
CarriedValidationFailure ==
    \/ ValidationFailure("temp_sensor")
    \/ ValidationFailure("air_quality")
    \/ /\ ValidationFailure("atmospheric")
       /\ \/ ~InRange(HUMID_RANGE, port.atmospheric.humRH)
          \/ port.atmospheric.presPa < PRESSURE_RANGE[1] * 100
          \/ port.atmospheric.presPa > PRESSURE_RANGE[2] * 100

C8_CarriedValidationFailureNotAdmitted ==
    CarriedValidationFailure => /\ sensor_data # None
                                /\ sensor_data.id \notin AdmittedIds

C8_Witness ==
    /\ Offered
    /\ ValidationFailure("atmospheric")
    /\ CarriedValidationFailure
    /\ sensor_data.sensor_status = STATUS_OK
    /\ data_cache # <<>>

(* C9: after a tick in which a sensor was read and answered in range (and  *)
(* operating ok), that sensor's error count is 0 whatever it was before.   *)
C9_GoodReadResetsCount ==
    \A s \in Sensors :
        (Returned /\ GoodAnswer(port, s)) => error_counts[s] = 0

C9_Witness ==
    \E s \in Sensors :
        /\ Returned
        /\ GoodAnswer(port, s)
        /\ at_entry.error_counts[s] > 0
        /\ error_counts[s] = 0

(* C10: a sensor is unhealthy exactly while its error count is at or above *)
(* ERROR_THRESHOLD, and the count of an unhealthy sensor only ever goes    *)
(* down in a read_sensors call in which that sensor answered in range.     *)
C10_UnhealthyUntilGoodRead ==
    /\ [](\A s \in Sensors :
            ~is_sensor_healthy(error_counts, s)
               <=> error_counts[s] >= ERROR_THRESHOLD)
    /\ [][\A s \in Sensors :
            (~is_sensor_healthy(error_counts, s)
               /\ (is_sensor_healthy(error_counts', s)
                     \/ error_counts'[s] < error_counts[s]))
            => /\ pc = "read" /\ port' # None /\ sensor_data' # None
               /\ GoodAnswer(port', s)
               /\ error_counts'[s] = 0]_vars

C10_Witness ==
    \E s \in Sensors :
        /\ Returned
        /\ ~is_sensor_healthy(at_entry.error_counts, s)
        /\ is_sensor_healthy(error_counts, s)

(* C11: if readings keep being admitted and from some point on every sink  *)
(* write succeeds, a non-empty cache is eventually emptied by a flush the  *)
(* sink accepted: a failed flush is tried again at a later flush point and *)
(* never stops the loop.                                                   *)
C11_NonEmptyCacheEventuallyFlushed ==
    (/\ []<><<pc = "write" /\ validate_data_point(sensor_data)>>_vars
     /\ <>[][pc = "flush" => sink_result' = "ok"]_vars)
    => (data_cache # <<>> ~> (data_cache = <<>> /\ sink_result = "ok"))

(* a flush failed, and the loop is at a flush point again with the same    *)
(* readings still in the cache                                             *)
C11_Witness ==
    /\ pc = "flush"
    /\ sink_result = "fail"
    /\ data_cache # <<>>
    /\ running

(* C12: no error raised inside a tick ends the run loop: while the process *)
(* is in the loop it is running, after the outer except block the loop     *)
(* goes on to the next read, a process that has polled a sensor has ended  *)
(* only by a signal (status 0), and status 1 is a startup failure.         *)
C12_TickErrorsContained ==
    /\ pc \in LoopPcs => running /\ exit_status = -1
    /\ pc = "exited" /\ tick > 0 => exit_status = 0
    /\ exit_status = 1 => tick = 0 /\ admitted = <<>> /\ ~startup_message_shown
    /\ pc = "error_sleep" => ENABLED ErrorSleep

(* the first tick's read raised, the second tick's flush failed, and the   *)
(* loop is on its way to a third tick                                      *)
C12_Witness ==
    /\ pc = "sleep"
    /\ running
    /\ tick = 2
    /\ sink_result = "fail"
    /\ error_counts["atmospheric"] = 2

StartupPcs == {"init_influxdb", "init_devices"}

(* C13: a startup step that does not go on to the next startup step or to  *)
(* the run loop ends the process with a non-zero status; a process that    *)
(* ended with a non-zero status never polled a sensor, never admitted a    *)
(* reading and takes no further step.                                      *)
C13_StartupFailureIsFatal ==
    /\ [][(pc \in StartupPcs /\ pc' \notin {"init_devices", "read"})
            => pc' = "exited" /\ exit_status' > 0]_vars
    /\ [](exit_status > 0 =>
            /\ pc = "exited" /\ ~running
            /\ tick = 0 /\ sensor_data = None
            /\ admitted = <<>> /\ data_cache = <<>>
            /\ ~ENABLED Next)

C13_Witness ==
    /\ pc = "exited"
    /\ exit_status = 1
    /\ tick = 0
    /\ now = StartTime

(* C14: a process that ended with status 0 ended by a signal: its display  *)
(* was cleared (unless the display itself raised), its cache got one flush *)
(* attempt, so that it is empty or the sink refused it, and a refusal      *)
(* changed neither the exit nor the status.  A signal can always be        *)
(* handled while the loop runs.                                            *)
C14_SignalFlushesAndExitsZero ==
    /\ exit_status = 0 =>
          /\ pc = "exited" /\ ~running
          /\ display \in {"blank", "unknown"}
          /\ data_cache = <<>> \/ sink_result = "fail"
    /\ pc = "exited" /\ exit_status # 1 => exit_status = 0
    /\ pc \in LoopPcs => ENABLED SignalHandler

(* the final flush was refused by the sink, the display is cleared and the *)
(* process has exited with status 0                                        *)
C14_Witness ==
    /\ exit_status = 0
    /\ sink_result = "fail"
    /\ data_cache # <<>>
    /\ delivered = {}
    /\ display = "blank"

NoDuplicates(q) == \A i, j \in 1..Len(q) : i # j => q[i] # q[j]

(* C15: two evaluations of get_environment_score on the same Reading       *)
(* return the same rating and the same recommendations in the same order,  *)
(* and the list has at most 2 entries and no duplicates.                   *)
C15_ScoreDeterministic ==
    /\ score # None => /\ Len(score.recommendations) <= 2
                       /\ NoDuplicates(score.recommendations)
    /\ score # None /\ prev_score # None => score = prev_score

(* C16: the recommendations returned are the first two in evaluation order *)
(* (CO2, TVOC, humidity, temperature, AQI), so that eCO2 > 2000 always     *)
(* yields "Ventilate now!".                                                *)
C16_FirstTwoInEvaluationOrder ==
    score # None =>
       LET recs == Recommendations(sensor_data)
       IN  /\ Len(recs) > 2 =>
                score.recommendations = <<recs[1].text, recs[2].text>>
           /\ sensor_data.eco2 > 2000 =>
                \E i \in 1..Len(score.recommendations) :
                    score.recommendations[i] = "Ventilate now!"

C18_TempFaultUsesOwnLastKnownGood ==
    (Returned /\ port.temp_sensor.fault)
    => LET stored == at_entry.last_readings["temp_sensor"]
       IN  sensor_data.tempC = IF stored # None THEN stored.tempC
                                                ELSE DEFAULT_ATMOSPHERIC.tempC

(* the stored value is in the range its sensor is validated against *)
LastKnownGoodInRange(s, stored) ==
    CASE s = "atmospheric" -> AtmosphericInRange(stored)
      [] s = "temp_sensor" -> InRange(TEMP_RANGE, stored.tempC)
      [] s = "air_quality" -> AirQualityInRange(stored)

(* C19: every last-known-good value is absent or in its sensor's range.    *)
C19_LastKnownGoodInRange ==
    \A s \in Sensors :
        last_readings[s] = None \/ LastKnownGoodInRange(s, last_readings[s])

(* C20: the Reading of a tick in which the air-quality sensor recorded a   *)
(* failure is returned but is not appended to the history and leaves every *)
(* last-known-good value as it was.                                        *)
C20_FailedTickNotTrusted ==
    (/\ Returned
     /\ error_counts["air_quality"] = at_entry.error_counts["air_quality"] + 1)
    => /\ sensor_data.id \notin Ids(reading_history)
       /\ last_readings = at_entry.last_readings

C22_FailureLeavesTimestamp ==
    [][\A s \in Sensors :
          (pc = "read" /\ error_counts'[s] = error_counts[s] + 1)
          => last_reading_time'[s] = last_reading_time[s]]_vars

(* C23: while some sensor's error count is at or above ERROR_THRESHOLD,    *)
(* write_to_influx does not admit the tick's Reading to the cache.         *)
C23_SustainedFaultNotAdmitted ==
    (/\ Offered
     /\ \E s \in Sensors : ~is_sensor_healthy(error_counts, s))
    => sensor_data.id \notin AdmittedIds

(* C24: the signal handler's shutdown (final flush, display clear, exit)   *)
(* is never taken while a tick is in progress: not after read_sensors has  *)
(* returned and before the tick's write_to_influx is over, so never        *)
(* between a cache append and that tick's flush check.                     *)
C24_ShutdownOnlyBetweenTicks ==
    [][(pc \in LoopPcs /\ pc' = "exited")
         => pc \notin {"display", "write", "flush"}]_vars

(* what the claim calls every sensor healthy and fresh, at the clock value *)
(* t at which run() asks                                                    *)
HealthyAndFresh(t) ==
    \A s \in Sensors : /\ is_sensor_healthy(error_counts, s)
                        /\ is_reading_fresh(last_reading_time, s, t)

FallbackMessages == {"Air quality ideal", "Air quality good",
                     "Continue ventilation", "Sensor warming up"}

ShowsFallback == \E i \in 1..Len(page_text) : page_text[i] \in FallbackMessages

(* C26: when get_environment_score returns no recommendations, page 4     *)
(* shows a fallback message, whatever the AQI (1..5) and the sensor        *)
(* status; when it returns a recommendation, no fallback message is shown. *)
C26_FallbackIffNoRecommendations ==
    pc = "shown" => (ShowsFallback <=> score.recommendations = <<>>)

(* C27: a write_to_influx call that rejects the tick's Reading leaves the  *)
(* cache and last_influx_send as they were and still goes on to            *)
(* flush_cache when the cache holds at least BATCH_SIZE readings and       *)
(* SEND_INTERVAL_SEC has passed since the last accepted flush.             *)
C27_RejectedTickStillFlushes ==
    [][(/\ pc = "write" /\ pc' \in LoopPcs
        /\ ~validate_data_point(sensor_data))
         => /\ UNCHANGED <<data_cache, last_influx_send>>
            /\ ShouldFlush(data_cache, last_influx_send, now) => pc' = "flush"]_vars

(* the ranges as the claim gives them, pressure in hundredths of a hPa *)
StatedRange(kind) ==
    CASE kind = "temperature" -> <<-10, 50>>
      [] kind = "humidity" -> <<0, 100>>
      [] kind = "pressure" -> <<90000, 110000>>
      [] kind = "tvoc" -> <<0, 65000>>
      [] kind = "eco2" -> <<400, 65000>>
      [] kind = "aqi" -> <<1, 5>>

KindsOf(fn) ==
    IF fn = "validate_reading" THEN {"temperature", "humidity", "pressure"}
    ELSE {"tvoc", "eco2", "aqi"}

Hundredths(call) ==
    IF call.kind = "pressure"
    THEN call.value.whole * 100 + call.value.cents
    ELSE call.value

(* C28: a validator returns true exactly for the values from the lower to  *)
(* the upper end of the kind's range, both ends included, returns true for *)
(* a kind it does not know, and leaves the health state as it was.         *)
C28_ValidatorsAcceptInclusiveRanges ==
    pc = "validated" =>
       /\ IF validation.kind \in KindsOf(validation.fn)
          THEN validation.result
                  <=> /\ StatedRange(validation.kind)[1] <= Hundredths(validation)
                      /\ Hundredths(validation) <= StatedRange(validation.kind)[2]
          ELSE validation.result
       /\ error_counts = at_entry.error_counts
       /\ last_readings = at_entry.last_readings
       /\ last_reading_time = [s \in Sensors |-> 0]

(* the upper end of a range has been accepted *)
C28_Witness ==
    /\ pc = "validated"
    /\ validation.kind \in KindsOf(validation.fn)
    /\ Hundredths(validation) = StatedRange(validation.kind)[2]
    /\ validation.result

====
